---------------------------- MODULE Spec2Model ----------------------------
(***************************************************************************)
(* TinyNeoController (wagiminator/ATtiny13-NeoController).                 *)
(*                                                                         *)
(* Two firmware variants are modelled side by side:                        *)
(*   "gamma"  software/gamma/NeoController_Gamma.ino  (ATtiny13A, polling  *)
(*            NEC decoder, gamma table)                                    *)
(*   "t10"    software/tiny10/NeoController_t10.ino   (ATtiny10, Timer0 /  *)
(*            pin-change interrupt NEC decoder, brightness)                *)
(*                                                                         *)
(* Specifications:                                                         *)
(*   SpecIR    one IR line carrying a scripted NEC frame (optionally with  *)
(*             one timing fault) and the decoder IR_read of either variant *)
(*   SpecEdges the t10 decoder on a nominal frame whose edges may also     *)
(*             fall between two waits of IR_read                           *)
(*   SpecAddr  the address / command validation at the end of IR_read as a *)
(*             function of the four received bytes                         *)
(*   SpecMain  the main loop and standby of either variant                 *)
(*   SpecHue   NEO_writeHue as a function of hue and brightness            *)
(*   SpecWire  NEO_writeColor / NEO_sendByte as a function of one color    *)
(*   SpecTol   one burst or pause within the receiver's skew, as measured  *)
(*             and tested by the bit loop of either decoder                *)
(***************************************************************************)
EXTENDS Integers, Sequences, FiniteSets, TLC

VARIABLES
  \* ---- IR line and decoder (SpecIR) ----
  variant,      \* "gamma" | "t10"
  scen,         \* the scenario on the wire: frame bytes and timing fault
  lineSeg,      \* index of the segment of the line the time is in
  lineOff,      \* ticks elapsed in that segment
  pc,           \* control point of the caller / IR_read
  bitI,         \* loop counter i of the bit loop
  byteIx,       \* gamma: which IR_readByte call of IR_read is running (1..4)
  result,       \* gamma: local 'result' of IR_readByte
  rbytes,       \* gamma: addr1, addr2, cmd1, cmd2 as returned by IR_readByte
  data,         \* t10: local 'data' of IR_read (32 bit)
  ret,          \* value returned by IR_read (NoRet while it has not returned)
  waits,        \* number of IR_waitChange / IR_wait calls of this IR_read
  pinState,     \* gamma: local 'pinState' of IR_waitChange
  dur,          \* gamma: local 'dur' of IR_waitChange
  wres,         \* gamma: value returned by the last IR_waitChange
  iters,        \* gamma: executions of the loop body in this IR_waitChange
  lastTimeout,  \* gamma: argument 'timeout' of this IR_waitChange
  bad,          \* a measured duration was outside its window in this IR_read
  badWaits,     \* value of 'waits' when 'bad' was raised
  entrySeg,     \* line segment the time was in when IR_read was entered
  IR_flag,      \* t10: volatile IR_flag
  IR_dur,       \* t10: volatile IR_dur
  TCNT,         \* t10: Timer0 counter
  timerOn,      \* t10: Timer0 clock selected (TCCR0B # 0)
  pcif,         \* t10: pin-change interrupt flag pending
  ocf,          \* t10: output-compare-A interrupt flag pending
  gie,          \* global interrupt enable (I bit of SREG)
  unread,       \* t10: durations PCINT0_vect stored in this IR_read that no
                \* IR_wait has returned yet
  sbEdge,       \* standby: the IR line has changed since this pass of the loop
                \* cleared the interrupt flag
  \* ---- validation as a function (SpecAddr) ----
  vin,          \* the four received bytes
  vout,         \* what the validation computed for them
  \* ---- main loop and standby (SpecMain) ----
  mpc,          \* control point of main / standby
  start,        \* main: local 'start'
  speed,        \* main: local 'speed'
  dense,        \* main: local 'dense'
  NEO_brightness, \* t10: global NEO_brightness (unused in gamma)
  current,      \* main: local 'current'
  pix,          \* loop counter i of the pixel loop / of NEO_clear
  poll,         \* loop counter i of the poll loop
  command,      \* value the last IR_read returned, while main / standby uses it
  frame,        \* bytes of the pixels written since the poll loop last ran on
  hues,         \* arguments of the NEO_writeHue calls that wrote them
  off,          \* power was received in ACTIVE and not yet again
  saved,        \* start, speed, dense, NEO_brightness when standby was entered
  woke,         \* standby has just returned
  sbLast,       \* last result other than power that standby received
  frameStart,   \* value of start when the frame being logged in hues began
  \* ---- pixel output and decoder thresholds as functions ----
  fin,          \* the arguments the function is applied to
  fout          \* what it computed for them

irVars   == <<variant, scen, lineSeg, lineOff, pc, bitI, byteIx, result, rbytes,
             data, ret, waits, pinState, dur, wres, iters, lastTimeout, bad, badWaits,
             entrySeg>>
hwVars   == <<IR_flag, IR_dur, TCNT, timerOn, pcif, ocf, gie>>
addrVars == <<vin, vout>>
animVars == <<start, speed, dense, NEO_brightness>>
histVars == <<off, saved, woke, sbLast, frameStart>>
funVars  == <<fin, fout>>
edgeVars == <<unread, sbEdge>>
mainVars == <<mpc, animVars, current, pix, poll, command, frame, hues, histVars>>
vars     == <<irVars, hwVars, addrVars, funVars, edgeVars, mainVars>>

-----------------------------------------------------------------------------
(* Program constants *)

IR_ADDR == 26
IR_POWER == 1
IR_BRIGHT == 2
IR_SPEED == 3
IR_DENSE == 4
IR_FAIL == 255

F_CPU == 8000000
IR_PRESCALER == 1024

\* #define IR_time(t) ((F_CPU / 1000) * t) / IR_PRESCALER / 1000
IR_time(t) == (((F_CPU \div 1000) * t) \div IR_PRESCALER) \div 1000

IR_TOP == IR_time(12000)

NoRet == 0 - 1

-----------------------------------------------------------------------------
(* 8/16/32 bit helpers *)

Pow2(n) == 2 ^ n

Bit(x, k) == (x \div Pow2(k)) % 2

\* bitwise or of two naturals below 2^n
RECURSIVE BitOr(_, _, _)
BitOr(a, b, n) ==
  IF n = 0 THEN 0
  ELSE (IF (a % 2) + (b % 2) > 0 THEN 1 ELSE 0) + 2 * BitOr(a \div 2, b \div 2, n - 1)

U8(x) == x % 256
U16(x) == x % 65536

-----------------------------------------------------------------------------
(* End of IR_read: complement check, address selection, address check.     *)
(* gamma lines 174-178, t10 lines 182-190.                                 *)

\* if ((cmd1 + cmd2) < 255) return IR_FAIL;   (int arithmetic, no wrap)
CmdReject(cmd1, cmd2) == (cmd1 + cmd2) < 255

\* mutant of AddrG: the high byte is not shifted
AddrG_NoShift(addr1, addr2) ==
  IF (addr1 + addr2) = 255 THEN addr1 ELSE BitOr(addr2, addr1, 16)

\* gamma: if ((addr1 + addr2) == 255) addr = addr1;
\*        else addr = ((uint16_t)addr2 << 8) | addr1;
AddrG(addr1, addr2) ==
  IF (addr1 + addr2) = 255 THEN addr1 ELSE BitOr(U16(addr2 * 256), addr1, 16)

\* A uint32_t is held as its four bytes, least significant first (as the AVR
\* holds it in four registers).
\* data >>= 1
Shr32(d) ==
  <<(d[1] \div 2) + 128 * (d[2] % 2), (d[2] \div 2) + 128 * (d[3] % 2),
    (d[3] \div 2) + 128 * (d[4] % 2), d[4] \div 2>>

\* data |= 0x80000000
OrTop32(d) == <<d[1], d[2], d[3], BitOr(d[4], 128, 8)>>

\* (uint16_t) data
Trunc16(d) == d[1] + 256 * d[2]

\* t10: uint8_t addr1 = data; addr2 = data >> 8; cmd1 = data >> 16; cmd2 = data >> 24;
DataAddr1(d) == d[1]
DataAddr2(d) == d[2]
DataCmd1(d)  == d[3]
DataCmd2(d)  == d[4]

\* t10: if ((addr1 + addr2) == 255) addr = addr1; else addr = data;  (uint16_t addr)
AddrT(d) ==
  IF (DataAddr1(d) + DataAddr2(d)) = 255 THEN DataAddr1(d) ELSE Trunc16(d)

\* mutant of AddrReject: only the low byte of the address is compared
AddrReject_LowByte(addr) == U8(addr) # IR_ADDR

\* if (addr != IR_ADDR) return IR_FAIL;
AddrReject(addr) == addr # IR_ADDR

\* the value IR_read returns once the trailing mark has been accepted
Validate(addr, cmd1, cmd2) ==
  IF CmdReject(cmd1, cmd2) THEN IR_FAIL
  ELSE IF AddrReject(addr) THEN IR_FAIL
  ELSE cmd1

\* value of 'data' before IR_read has assigned it a bit
NoData == <<0, 0, 0, 0>>

-----------------------------------------------------------------------------
(* The IR line.  The receiver output is active LOW: a burst (mark) is LOW, *)
(* a pause (space) is HIGH.  A scenario is an NEC frame of four bytes,     *)
(* least significant bit first, optionally with one segment of the frame   *)
(* replaced by a too short or too long one, or with the line frozen in it, *)
(* or noise: a line that toggles on every tick.                            *)
(* Wire segments are numbered 1 (lead mark), 2 (lead space), 2n+1 / 2n+2   *)
(* (mark / space of bit n = 1..32) and 67 (trailing mark).  Line segment   *)
(* k+1 is wire segment k; line segment 1 is the idle HIGH before the frame.*)

Variants == {"gamma", "t10"}

\* NEC timing in half microseconds (README, IR Receiver Implementation)
NEC_LEAD_MARK  == 18000
NEC_LEAD_SPACE == 9000
NEC_BIT_MARK   == 1125
NEC_ONE_SPACE  == 3375

\* gamma: one poll every _delay_us(100); t10: one Timer0 count every
\* IR_PRESCALER clock cycles; both in half microseconds
TICK_G == 200
TickHalfUs(v) == IF v = "gamma" THEN TICK_G ELSE (IR_PRESCALER * 2000000) \div F_CPU

WireSegs == 67
LastLineSeg == WireSegs + 1

SegKind(ws) ==
  IF ws = 1 THEN "lmark"
  ELSE IF ws = 2 THEN "lspace"
  ELSE IF ws = WireSegs THEN "fmark"
  ELSE IF ws % 2 = 1 THEN "mark" ELSE "space"

\* bit n (1..32) of the frame: addr1, addr2, cmd1, cmd2, each LSB first
FrameBit(sc, n) ==
  LET b == (n - 1) \div 8
      byte == IF b = 0 THEN sc.a1 ELSE IF b = 1 THEN sc.a2
              ELSE IF b = 2 THEN sc.c1 ELSE sc.c2
  IN Bit(byte, (n - 1) % 8)

NominalHalfUs(sc, ws) ==
  LET k == SegKind(ws) IN
  IF k = "lmark" THEN NEC_LEAD_MARK
  ELSE IF k = "lspace" THEN NEC_LEAD_SPACE
  ELSE IF k = "space" /\ FrameBit(sc, (ws - 2) \div 2) = 1 THEN NEC_ONE_SPACE
  ELSE NEC_BIT_MARK

\* length of a too long segment, in ticks: beyond every timeout of either decoder
LongTicks == 130

\* length in ticks of wire segment ws as the scenario sends it
SegTicks(v, sc, ws) ==
  LET nom == NominalHalfUs(sc, ws) \div TickHalfUs(v) IN
  IF sc.kind = "noise" THEN 1
  ELSE IF sc.pos = ws /\ sc.kind = "short" THEN (IF nom \div 4 = 0 THEN 1 ELSE nom \div 4)
  ELSE IF sc.pos = ws /\ sc.kind = "long" THEN LongTicks
  ELSE nom

\* number of line segments of finite length; the one after them lasts forever
NSeg(sc) == IF sc.kind = "stuck" THEN sc.pos ELSE LastLineSeg

LineTicks(v, sc, seg) == IF seg = 1 THEN 1 ELSE SegTicks(v, sc, seg - 1)

\* PINB & (1<<IR_PIN): 1 while the line is HIGH
Level(seg) == seg % 2

\* the line one tick later
Adv(v, sc, seg, o) ==
  IF seg > NSeg(sc) THEN <<seg, 0>>
  ELSE IF o + 1 >= LineTicks(v, sc, seg) THEN <<seg + 1, 0>>
  ELSE <<seg, o + 1>>

\* Frames and faults the scenarios are drawn from
AddrPairs == {<<26, 229>>, <<26, 0>>, <<52, 18>>}
CmdPairs  == {<<1, 254>>, <<1, 253>>, <<1, 255>>, <<3, 252>>, <<255, 0>>,
              <<165, 90>>, <<0, 255>>}
FaultCmds == {<<1, 254>>, <<3, 252>>}
FaultPos  == {1, 2, 3, 4, 17, 18, 19, 20, 33, 34, 35, 36, 49, 50, 51, 52,
              65, 66, 67}
FaultKinds == {"short", "long", "stuck"}

Scenarios ==
  {[a1 |-> a[1], a2 |-> a[2], c1 |-> c[1], c2 |-> c[2], pos |-> 0, kind |-> "none"] :
      a \in AddrPairs, c \in CmdPairs}
  \cup
  {[a1 |-> 26, a2 |-> 229, c1 |-> c, c2 |-> 255 - c, pos |-> 0, kind |-> "none"] :
      c \in 0 .. 255}
  \cup
  {[a1 |-> 26, a2 |-> 229, c1 |-> c[1], c2 |-> c[2], pos |-> p, kind |-> k] :
      c \in FaultCmds, p \in FaultPos, k \in FaultKinds}
  \cup
  {[a1 |-> 26, a2 |-> 229, c1 |-> 1, c2 |-> 254, pos |-> 0, kind |-> "noise"]}

\* every segment of the frame has its nominal length
Nominal(sc) == sc.kind = "none"

-----------------------------------------------------------------------------
(* gamma: polling decoder, NeoController_Gamma.ino lines 134-179            *)

\* #define IR_available() (~PINB & (1<<IR_PIN)): true if the line is LOW
IR_available(seg) == Level(seg) = 0

\* mutant of TimedOut: the test is made after the increment and off by a tick more
TimedOut_Late(d, timeout) == d > timeout + 1

\* if (dur++ > timeout) return 0;   (the test reads dur before the increment)
TimedOut(d, timeout) == d > timeout

\* values an uninitialised local may hold when the function is entered
Garbage8  == {0, 255}
Garbage32 == {<<0, 0, 0, 0>>, <<255, 255, 255, 255>>}

\* where IR_read of the gamma variant may be entered: on the idle line, or
\* this many ticks into the lead mark
EntryOffsets == {0, 60}

\* the timeout argument of the IR_waitChange call of each stage of IR_read
TimeoutOf(stage) ==
  IF stage = "lead" THEN 100
  ELSE IF stage = "lspace" THEN 55
  ELSE IF stage = "space" THEN 21
  ELSE 11

\* the call IR_waitChange(TimeoutOf(stage)):
\*   uint8_t pinState = PINB & (1<<IR_PIN);  uint8_t dur = 0;
GCallWait(stage) ==
  /\ pc' = <<stage, "loop">>
  /\ pinState' = Level(lineSeg)
  /\ dur' = 0
  /\ iters' = 0
  /\ waits' = waits + 1
  /\ lastTimeout' = TimeoutOf(stage)

GFail ==
  /\ pc' = <<"done", "">>
  /\ ret' = IR_FAIL

GBad ==
  /\ bad' = TRUE
  /\ badWaits' = IF bad THEN badWaits ELSE waits

\* IR_readByte returns val: IR_read stores it and calls IR_readByte again, or
\* goes on to the trailing mark
GByteReturns(val) ==
  /\ rbytes' = Append(rbytes, val)
  /\ IF byteIx < 4
       THEN /\ byteIx' = byteIx + 1
            /\ bitI' = 8
            /\ \E g \in Garbage8 : result' = g \div 2
            /\ GCallWait("mark")
       ELSE /\ GCallWait("final")
            /\ UNCHANGED <<byteIx, bitI, result>>

\* mutant of MarkTooShort: the lower limit of a burst is one tick higher
MarkTooShort_Four(d) == d < 4

\* if (IR_waitChange(11) < 3) return IR_FAIL;
MarkTooShort(d) == d < 3

\* if (dur > 11) result |= 0x80;
OneSpace(d) == d > 11

\* mutant of ShiftIn: the received bit is put into bit 0
ShiftIn_Low(res, one) == IF one THEN BitOr(res, 1, 8) ELSE res

\* if (dur > 11) result |= 0x80;
ShiftIn(res, one) == IF one THEN BitOr(res, 128, 8) ELSE res

\* if (!IR_available()) return IR_FAIL;  if (!IR_waitChange(100)) ...
G_Enter ==
  /\ variant = "gamma" /\ pc = <<"call", "">>
  /\ IF IR_available(lineSeg)
       THEN GCallWait("lead") /\ ret' = ret
       ELSE GFail /\ UNCHANGED <<pinState, dur, iters, waits, lastTimeout>>
  /\ entrySeg' = lineSeg
  /\ UNCHANGED <<variant, scen, lineSeg, lineOff, bitI, byteIx, result, rbytes, data,
                 wres, bad, badWaits, hwVars, addrVars, funVars, edgeVars, mainVars>>

\* IR_waitChange, one evaluation of the loop condition and, if it holds, of the body:
\*   while ((PINB & (1<<IR_PIN)) == pinState) {
\*     if (dur++ > timeout) return 0;
\*     _delay_us(100);
\*   }
\*   return dur;
G_Poll ==
  /\ variant = "gamma" /\ pc[2] = "loop"
  /\ IF Level(lineSeg) # pinState
       THEN /\ wres' = dur
            /\ pc' = <<pc[1], "ret">>
            /\ UNCHANGED <<dur, iters, lineSeg, lineOff>>
       ELSE IF TimedOut(dur, lastTimeout)
         THEN /\ dur' = U8(dur + 1)
              /\ iters' = iters + 1
              /\ wres' = 0
              /\ pc' = <<pc[1], "ret">>
              /\ UNCHANGED <<lineSeg, lineOff>>
         ELSE /\ dur' = U8(dur + 1)
              /\ iters' = iters + 1
              /\ LET n == Adv("gamma", scen, lineSeg, lineOff) IN
                   lineSeg' = n[1] /\ lineOff' = n[2]
              /\ UNCHANGED <<wres, pc>>
  /\ UNCHANGED <<variant, scen, pinState, bitI, byteIx, result, rbytes, data, ret, waits,
                 lastTimeout, bad, badWaits, entrySeg, hwVars, addrVars, funVars, edgeVars, mainVars>>

\* if (!IR_waitChange(100)) return IR_FAIL;  if (IR_waitChange(55) ...
G_Lead ==
  /\ variant = "gamma" /\ pc = <<"lead", "ret">>
  /\ IF wres = 0
       THEN GFail /\ GBad /\ UNCHANGED <<pinState, dur, iters, waits, lastTimeout>>
       ELSE GCallWait("lspace") /\ UNCHANGED <<ret, bad, badWaits>>
  /\ UNCHANGED <<variant, scen, lineSeg, lineOff, bitI, byteIx, result, rbytes, data,
                 wres, entrySeg, hwVars, addrVars, funVars, edgeVars, mainVars>>

\* if (IR_waitChange(55) < 35) return IR_FAIL;  uint8_t addr1 = IR_readByte();
\* IR_readByte: uint8_t result; for (uint8_t i=8; i; i--) { result >>= 1; ...
G_LeadSpace ==
  /\ variant = "gamma" /\ pc = <<"lspace", "ret">>
  /\ IF wres < 35
       THEN /\ GFail /\ GBad
            /\ UNCHANGED <<bitI, byteIx, result, pinState, dur, iters, waits, lastTimeout>>
       ELSE /\ byteIx' = 1
            /\ bitI' = 8
            /\ \E g \in Garbage8 : result' = g \div 2
            /\ GCallWait("mark")
            /\ UNCHANGED <<ret, bad, badWaits>>
  /\ UNCHANGED <<variant, scen, lineSeg, lineOff, rbytes, data, wres, entrySeg, hwVars, addrVars, funVars, edgeVars, mainVars>>

\* IR_readByte: if (IR_waitChange(11) < 3) return IR_FAIL;  dur = IR_waitChange(21);
G_Mark ==
  /\ variant = "gamma" /\ pc = <<"mark", "ret">>
  /\ IF MarkTooShort(wres)
       THEN GByteReturns(IR_FAIL) /\ GBad
       ELSE /\ GCallWait("space")
            /\ UNCHANGED <<bitI, byteIx, result, rbytes, bad, badWaits>>
  /\ UNCHANGED <<variant, scen, lineSeg, lineOff, data, ret, wres, entrySeg, hwVars, addrVars, funVars, edgeVars, mainVars>>

\* IR_readByte: if (dur < 3) return IR_FAIL;  if (dur > 11) result |= 0x80;
\* then i--, and either result >>= 1 and the next burst, or return result
G_Space ==
  /\ variant = "gamma" /\ pc = <<"space", "ret">>
  /\ LET r == ShiftIn(result, OneSpace(wres)) IN
     IF wres < 3
       THEN GByteReturns(IR_FAIL) /\ GBad
       ELSE IF bitI = 1
         THEN GByteReturns(r) /\ UNCHANGED <<bad, badWaits>>
         ELSE /\ result' = r \div 2
              /\ bitI' = bitI - 1
              /\ GCallWait("mark")
              /\ UNCHANGED <<byteIx, rbytes, bad, badWaits>>
  /\ UNCHANGED <<variant, scen, lineSeg, lineOff, data, ret, wres, entrySeg, hwVars, addrVars, funVars, edgeVars, mainVars>>

\* if (IR_waitChange(11) < 3) return IR_FAIL;  and lines 174-178: complement
\* check, address, return cmd1
G_Final ==
  /\ variant = "gamma" /\ pc = <<"final", "ret">>
  /\ pc' = <<"done", "">>
  /\ IF MarkTooShort(wres)
       THEN ret' = IR_FAIL /\ GBad
       ELSE /\ ret' = Validate(AddrG(rbytes[1], rbytes[2]), rbytes[3], rbytes[4])
            /\ UNCHANGED <<bad, badWaits>>
  /\ UNCHANGED <<variant, scen, lineSeg, lineOff, bitI, byteIx, result, rbytes, data,
                 pinState, dur, iters, waits, lastTimeout, wres, entrySeg, hwVars, addrVars, funVars, edgeVars, mainVars>>

-----------------------------------------------------------------------------
(* t10: Timer0 / pin-change interrupt decoder, NeoController_t10.ino        *)
(* lines 139-207.  Time advances in Timer0 counts (T_Tick).  The mainline   *)
(* executes far faster than one count, so time passes only while the        *)
(* mainline waits (in the caller, or spinning in IR_wait); a pending        *)
(* interrupt is served before the mainline runs on.                         *)

IntPending == gie /\ (pcif \/ ocf)

\* the mainline is in IR_read, past its test of IR_available()
InRead == pc[1] \in {"lead", "lspace", "mark", "space", "final"}

\* 'unread' counts up to this many durations
MaxUnread == 2

TFail ==
  /\ pc' = <<"done", "">>
  /\ ret' = IR_FAIL

TBad ==
  /\ bad' = TRUE
  /\ badWaits' = IF bad THEN badWaits ELSE waits

\* Timer0 in CTC mode: the count that matches OCR0A = IR_TOP
CompareMatch(cnt) == cnt = IR_TOP

\* The caller polls IR_available() at least this often (in Timer0 counts) while
\* the line is LOW: one frame of pixels or one _delay_ms(1) lies between two polls.
PollGap == 72

\* the caller may let one more count pass before it calls IR_read
CallerWaits ==
  /\ pc = <<"idle", "">>
  /\ Level(lineSeg) = 1 \/ (timerOn /\ TCNT < PollGap)

\* one Timer0 count of time passes on the line and, if it runs, in the timer
T_Tick ==
  /\ variant = "t10" /\ ~IntPending
  /\ CallerWaits \/ (pc[2] = "spin" /\ IR_flag = 1)
  /\ LET n == Adv("t10", scen, lineSeg, lineOff) IN
     /\ lineSeg' = n[1]
     /\ lineOff' = n[2]
     /\ pcif' = (pcif \/ n[1] # lineSeg)
  /\ IF timerOn
       THEN IF CompareMatch(TCNT)
              THEN TCNT' = 0 /\ ocf' = TRUE
              ELSE TCNT' = TCNT + 1 /\ ocf' = ocf
       ELSE UNCHANGED <<TCNT, ocf>>
  /\ UNCHANGED <<variant, scen, pc, bitI, byteIx, result, rbytes, data, ret, waits,
                 pinState, dur, wres, iters, lastTimeout, bad, badWaits, entrySeg, IR_flag, IR_dur, timerOn,
                 gie, addrVars, funVars, edgeVars, mainVars>>

\* ISR (PCINT0_vect)
T_PCINT ==
  /\ variant = "t10" /\ gie /\ pcif
  /\ IR_dur' = U8(TCNT)
  /\ TCNT' = 0
  /\ timerOn' = TRUE
  /\ IR_flag' = 0
  /\ pcif' = FALSE
  /\ unread' = IF InRead /\ unread < MaxUnread THEN unread + 1 ELSE unread
  /\ sbEdge' = sbEdge
  /\ UNCHANGED <<irVars, ocf, gie, addrVars, funVars, mainVars>>

\* ISR (TIM0_COMPA_vect); PCINT0 has the higher priority
T_TIM0 ==
  /\ variant = "t10" /\ gie /\ ocf /\ ~pcif
  /\ timerOn' = FALSE
  /\ TCNT' = 0
  /\ IR_flag' = 0
  /\ IR_dur' = 0
  /\ ocf' = FALSE
  /\ UNCHANGED <<irVars, pcif, gie, addrVars, funVars, edgeVars, mainVars>>

\* the caller calls IR_read: uint32_t data; if (!IR_available()) return IR_FAIL;
T_Enter ==
  /\ variant = "t10" /\ ~IntPending /\ pc = <<"idle", "">>
  /\ IF IR_available(lineSeg)
       THEN /\ pc' = <<"lead", "set">>
            /\ \E g \in Garbage32 : data' = g
            /\ ret' = ret
       ELSE TFail /\ data' = data
  /\ entrySeg' = lineSeg
  /\ UNCHANGED <<variant, scen, lineSeg, lineOff, bitI, byteIx, result, rbytes, waits,
                 pinState, dur, wres, iters, lastTimeout, bad, badWaits, hwVars,
                 addrVars, funVars, edgeVars, mainVars>>

\* IR_wait: IR_flag = 1;  (in the bit loop, data >>= 1 precedes the wait for the burst)
T_WaitSet ==
  /\ variant = "t10" /\ ~IntPending /\ pc[2] = "set"
  /\ IR_flag' = 1
  /\ pc' = <<pc[1], "spin">>
  /\ waits' = waits + 1
  /\ data' = IF pc[1] = "mark" THEN Shr32(data) ELSE data
  /\ UNCHANGED <<variant, scen, lineSeg, lineOff, bitI, byteIx, result, rbytes, ret,
                 pinState, dur, wres, iters, lastTimeout, bad, badWaits, entrySeg, IR_dur, TCNT, timerOn, pcif,
                 ocf, gie, addrVars, funVars, edgeVars, mainVars>>

\* IR_wait: while (IR_flag);
T_WaitSpin ==
  /\ variant = "t10" /\ ~IntPending /\ pc[2] = "spin"
  /\ IR_flag = 0
  /\ pc' = <<pc[1], "chk">>
  /\ unread' = IF unread > 0 THEN unread - 1 ELSE 0
  /\ sbEdge' = sbEdge
  /\ UNCHANGED <<variant, scen, lineSeg, lineOff, bitI, byteIx, result, rbytes, data, ret,
                 waits, pinState, dur, wres, iters, lastTimeout, bad, badWaits, entrySeg, hwVars, addrVars, funVars, mainVars>>

\* if (IR_dur < IR_time(8000)) return IR_FAIL;
T_ChkLead ==
  /\ variant = "t10" /\ ~IntPending /\ pc = <<"lead", "chk">>
  /\ IF IR_dur < IR_time(8000)
       THEN TFail /\ TBad
       ELSE pc' = <<"lspace", "set">> /\ UNCHANGED <<ret, bad, badWaits>>
  /\ UNCHANGED <<variant, scen, lineSeg, lineOff, bitI, byteIx, result, rbytes, data,
                 waits, pinState, dur, wres, iters, lastTimeout, entrySeg, hwVars, addrVars, funVars, edgeVars, mainVars>>

\* if (IR_dur < IR_time(4000)) return IR_FAIL;  for (uint8_t i=32; i; i--)
T_ChkLeadSpace ==
  /\ variant = "t10" /\ ~IntPending /\ pc = <<"lspace", "chk">>
  /\ IF IR_dur < IR_time(4000)
       THEN TFail /\ TBad /\ bitI' = bitI
       ELSE /\ pc' = <<"mark", "set">>
            /\ bitI' = 32
            /\ UNCHANGED <<ret, bad, badWaits>>
  /\ UNCHANGED <<variant, scen, lineSeg, lineOff, byteIx, result, rbytes, data,
                 waits, pinState, dur, wres, iters, lastTimeout, entrySeg, hwVars, addrVars, funVars, edgeVars, mainVars>>

\* if (!IR_dur) return IR_FAIL;   (after the burst of a bit)
T_ChkMark ==
  /\ variant = "t10" /\ ~IntPending /\ pc = <<"mark", "chk">>
  /\ IF IR_dur = 0
       THEN TFail /\ TBad
       ELSE pc' = <<"space", "set">> /\ UNCHANGED <<ret, bad, badWaits>>
  /\ UNCHANGED <<variant, scen, lineSeg, lineOff, bitI, byteIx, result, rbytes, data,
                 waits, pinState, dur, wres, iters, lastTimeout, entrySeg, hwVars, addrVars, funVars, edgeVars, mainVars>>

\* if (IR_dur > IR_time(1124)) data |= 0x80000000;
OneSpaceT(d) == d > IR_time(1124)

\* if (!IR_dur) return IR_FAIL; if (IR_dur > IR_time(1124)) data |= 0x80000000; i--
T_ChkSpace ==
  /\ variant = "t10" /\ ~IntPending /\ pc = <<"space", "chk">>
  /\ IF IR_dur = 0
       THEN TFail /\ TBad /\ UNCHANGED <<data, bitI>>
       ELSE /\ data' = IF OneSpaceT(IR_dur) THEN OrTop32(data) ELSE data
            /\ bitI' = bitI - 1
            /\ pc' = IF bitI = 1 THEN <<"final", "set">> ELSE <<"mark", "set">>
            /\ UNCHANGED <<ret, bad, badWaits>>
  /\ UNCHANGED <<variant, scen, lineSeg, lineOff, byteIx, result, rbytes,
                 waits, pinState, dur, wres, iters, lastTimeout, entrySeg, hwVars, addrVars, funVars, edgeVars, mainVars>>

\* after the wait for the end of the final burst: lines 182-190
T_Final ==
  /\ variant = "t10" /\ ~IntPending /\ pc = <<"final", "chk">>
  /\ pc' = <<"done", "">>
  /\ ret' = Validate(AddrT(data), DataCmd1(data), DataCmd2(data))
  /\ IF IR_dur = 0 THEN TBad ELSE UNCHANGED <<bad, badWaits>>
  /\ UNCHANGED <<variant, scen, lineSeg, lineOff, bitI, byteIx, result, rbytes, data,
                 waits, pinState, dur, wres, iters, lastTimeout, entrySeg, hwVars, addrVars, funVars, edgeVars, mainVars>>

\* IR_read has returned; its locals are gone and the caller goes on
T_Return ==
  /\ variant = "t10" /\ ~IntPending /\ pc = <<"done", "">>
  /\ pc' = <<"idle", "">>
  /\ ret' = NoRet
  /\ data' = NoData
  /\ bitI' = 0
  /\ waits' = 0
  /\ bad' = FALSE
  /\ badWaits' = 0
  /\ entrySeg' = 0
  /\ unread' = 0
  /\ sbEdge' = sbEdge
  /\ UNCHANGED <<variant, scen, lineSeg, lineOff, byteIx, result, rbytes,
                 pinState, dur, wres, iters, lastTimeout, hwVars, addrVars, funVars, mainVars>>

\* The IR line changes its level while the mainline is on its way from one
\* IR_wait to the next (after 'while(IR_flag);' has ended or IR_available() was
\* tested, and before 'IR_flag = 1'): the segment on the line ends before a
\* Timer0 count has passed.  One such edge per IR_read is followed.
T_EarlyEdge ==
  /\ variant = "t10" /\ InRead /\ pc[2] \in {"set", "chk"}
  /\ ~pcif /\ unread = 0
  /\ lineSeg <= NSeg(scen)
  /\ lineSeg' = lineSeg + 1
  /\ lineOff' = 0
  /\ pcif' = TRUE
  /\ UNCHANGED <<variant, scen, pc, bitI, byteIx, result, rbytes, data, ret, waits,
                 pinState, dur, wres, iters, lastTimeout, bad, badWaits, entrySeg,
                 IR_flag, IR_dur, TCNT, timerOn, ocf, gie, addrVars, funVars, edgeVars,
                 mainVars>>

-----------------------------------------------------------------------------
(* Pixel output, main loop and standby of both variants.                   *)
(* gamma lines 74-126, 186-247; t10 lines 73-133, 214-272.                 *)

\* number of pixels in the string (255 in the source)
NEO_PIXELS == 3

\* passes of the poll loop after each frame (80 in the source)
PollSlices == 2

\* Gamma correction table
gamma ==
  <<  0,   0,   0,   0,   0,   0,   0,   1,   1,   1,   2,   2,   3,   3,   4,   5,
      6,   7,   8,  10,  11,  13,  14,  16,  18,  20,  22,  25,  27,  30,  33,  36,
     39,  43,  47,  50,  55,  59,  63,  68,  73,  78,  83,  89,  95, 101, 107, 114,
    120, 127, 135, 142, 150, 158, 167, 175, 184, 193, 203, 213, 223, 233, 244, 255>>

\* the pixel types the preprocessor selects from; the source defines NEO_GRB
PixelTypes == {"NEO_GRB", "NEO_RGB", "NEO_RGBW"}

\* mutant of NEO_writeColorT: every type is sent in the order r, g, b
NEO_writeColorT_RGB(type, r, g, b) ==
  IF type = "NEO_RGBW" THEN <<r, g, b, 0>> ELSE <<r, g, b>>

\* NEO_writeColor as compiled for a pixel type: the bytes passed to
\* NEO_sendByte, in the order of the calls
NEO_writeColorT(type, r, g, b) ==
  IF type = "NEO_GRB" THEN <<g, r, b>>
  ELSE IF type = "NEO_RGB" THEN <<r, g, b>>
  ELSE <<r, g, b, 0>>

\* NEO_writeColor with NEO_GRB defined: the bytes of one pixel in the order sent
NEO_writeColor(r, g, b) == <<g, r, b>>

\* clock of the gamma variant in Hz (the t10 clock is F_CPU)
F_CPU_GAMMA == 9600000

ClockKHz(v) == IF v = "gamma" THEN F_CPU_GAMMA \div 1000 ELSE F_CPU \div 1000

\* clock cycles of the instructions of NEO_sendByte (CLK column of the source)
CYC_LOOP      == 3
CYC_SBI       == 2
CYC_SBRS      == 1
CYC_SBRS_SKIP == 2
CYC_CBI       == 2
CYC_RJMP      == 2
CYC_ADD       == 1
CYC_SUBI      == 1
CYC_BRNE      == 2

\* mutant of BitHigh: the line of a 0 bit goes LOW only after the delay
BitHigh_LateLow(v, b) ==
  IF v = "gamma"
    THEN (IF b = 0 THEN CYC_SBRS + CYC_RJMP + CYC_CBI
          ELSE CYC_SBRS_SKIP + CYC_RJMP + CYC_ADD + CYC_CBI)
    ELSE (IF b = 0 THEN CYC_SBRS + CYC_ADD + CYC_SUBI + CYC_CBI
          ELSE CYC_SBRS_SKIP + CYC_ADD + CYC_SUBI + CYC_CBI)

\* cycles the DATA line is HIGH for a bit b: from the end of sbi to the end of
\* the cbi that takes it LOW (the first cbi is skipped by sbrs for a 1 bit)
BitHigh(v, b) ==
  IF v = "gamma"
    THEN (IF b = 0 THEN CYC_SBRS + CYC_CBI
          ELSE CYC_SBRS_SKIP + CYC_RJMP + CYC_ADD + CYC_CBI)
    ELSE (IF b = 0 THEN CYC_SBRS + CYC_CBI
          ELSE CYC_SBRS_SKIP + CYC_ADD + CYC_SUBI + CYC_CBI)

\* cycles of one pass of the bit loop for a bit b
BitTotal(v, b) ==
  IF v = "gamma"
    THEN CYC_LOOP + CYC_SBI
         + (IF b = 0 THEN CYC_SBRS + CYC_CBI ELSE CYC_SBRS_SKIP)
         + CYC_RJMP + CYC_ADD + CYC_CBI
    ELSE CYC_SBI
         + (IF b = 0 THEN CYC_SBRS + CYC_CBI ELSE CYC_SBRS_SKIP)
         + CYC_ADD + CYC_SUBI + CYC_CBI + CYC_BRNE

\* the bit loop of NEO_sendByte with 'bit' passes left: sbrs tests bit 7 of
\* byte, add byte, byte shifts it left
RECURSIVE SendBits(_, _, _)
SendBits(v, byte, bit) ==
  IF bit = 0 THEN <<>>
  ELSE LET b == byte \div 128 IN
       <<[bit |-> b, high |-> BitHigh(v, b), total |-> BitTotal(v, b)]>>
         \o SendBits(v, U8(byte + byte), bit - 1)

\* NEO_sendByte(byte): the bits put on the DATA line, in order, with their timing
NEO_sendByte(v, byte) == SendBits(v, byte, 8)

\* the bits of all bytes of a pixel, in the order sent
RECURSIVE SendBytes(_, _)
SendBytes(v, bytes) ==
  IF bytes = <<>> THEN <<>>
  ELSE NEO_sendByte(v, Head(bytes)) \o SendBytes(v, Tail(bytes))

\* mutant of NEO_writeHue: case 1 passes step and nstep in the wrong order
NEO_writeHue_SwapPhase1(v, hue, brightness) ==
  LET phase == hue \div 64
      step  == IF v = "gamma" THEN gamma[(hue % 64) + 1]
               ELSE U8((hue % 64) * Pow2(brightness))
      nstep == IF v = "gamma" THEN gamma[(63 - (hue % 64)) + 1]
               ELSE U8(63 * Pow2(brightness) - step)
  IN IF phase = 0 THEN <<NEO_writeColor(nstep, step, 0)>>
     ELSE IF phase = 1 THEN <<NEO_writeColor(0, step, nstep)>>
     ELSE IF phase = 2 THEN <<NEO_writeColor(step, 0, nstep)>>
     ELSE <<>>

\* mutant of NEO_writeHue: case 2 is missing, its hues take the default branch
NEO_writeHue_NoCase2(v, hue, brightness) ==
  LET phase == hue \div 64
      step  == IF v = "gamma" THEN gamma[(hue % 64) + 1]
               ELSE U8((hue % 64) * Pow2(brightness))
      nstep == IF v = "gamma" THEN gamma[(63 - (hue % 64)) + 1]
               ELSE U8(63 * Pow2(brightness) - step)
  IN IF phase = 0 THEN <<NEO_writeColor(nstep, step, 0)>>
     ELSE IF phase = 1 THEN <<NEO_writeColor(0, nstep, step)>>
     ELSE <<>>

\* NEO_writeHue(hue): the pixels it writes (one, or none in the default branch)
NEO_writeHue(v, hue, brightness) ==
  LET phase == hue \div 64
      step  == IF v = "gamma" THEN gamma[(hue % 64) + 1]
               ELSE U8((hue % 64) * Pow2(brightness))
      nstep == IF v = "gamma" THEN gamma[(63 - (hue % 64)) + 1]
               ELSE U8(63 * Pow2(brightness) - step)
  IN IF phase = 0 THEN <<NEO_writeColor(nstep, step, 0)>>
     ELSE IF phase = 1 THEN <<NEO_writeColor(0, nstep, step)>>
     ELSE IF phase = 2 THEN <<NEO_writeColor(step, 0, nstep)>>
     ELSE <<>>

\* mutant of Wrap192: the sum is not reduced
Wrap192_NoWrap(x, d) == U8(x + d)

\* mutant of Wrap192: the comparison is > instead of >=
Wrap192_Gt(x, d) ==
  LET y == U8(x + d) IN IF y > 192 THEN y - 192 ELSE y

\* x += d; if (x >= 192) x -= 192;   (uint8_t)
Wrap192(x, d) ==
  LET y == U8(x + d) IN IF y >= 192 THEN y - 192 ELSE y

\* mutant of NextSpeed: speed is not shifted before the increment
NextSpeed_NoShift(s) ==
  LET t == U8(s + 1) IN IF t > 7 THEN 0 ELSE t

\* speed <<= 1; if (++speed > 7) speed = 0;
NextSpeed(s) ==
  LET t == U8(U8(s * 2) + 1) IN IF t > 7 THEN 0 ELSE t

\* dense += 2; if (dense > 7) dense = 0;
NextDense(d) ==
  LET t == U8(d + 2) IN IF t > 7 THEN 0 ELSE t

\* mutant of NextBrightness: a fourth level of brightness
NextBrightness_Four(b) ==
  LET t == U8(b + 1) IN IF t > 3 THEN 0 ELSE t

\* if (++NEO_brightness > 2) NEO_brightness = 0;
NextBrightness(b) ==
  LET t == U8(b + 1) IN IF t > 2 THEN 0 ELSE t

\* mutant of LoopAgain: the loop ends one pass early
LoopAgain_Early(i) == i > 1

\* for (uint8_t i = ...; i; i--): the loop condition
LoopAgain(i) == i # 0

\* mutant of StandbyExit: any decoded command ends standby
StandbyExit_AnyCommand(avail, c) == avail /\ c # IR_FAIL

\* if ((IR_available()) && (IR_read() == IR_POWER)) break;
StandbyExit(avail, c) == avail /\ c = IR_POWER

\* mutant of Case: only the two low bits of the command are compared
Case_LowBits(c, code) == c % 4 = code

\* switch (command) { case code: ... }
Case(c, code) == c = code

\* mutant of DecodeLatches: a decode is taken to be as short as a failed one
DecodeLatches_Never(c) == FALSE

\* IR_read returned c.  Any value other than IR_FAIL was returned from the last
\* line of IR_read, after the whole NEC frame (lead burst of 9 ms and 66 more
\* segments) was measured: far longer than the latch time of 281 us.  IR_FAIL
\* may be returned at once.
DecodeLatches(c) == c # IR_FAIL

\* values IR_read may return to its caller: the commands of either variant,
\* IR_FAIL and a code no variant knows
IRResults == {IR_POWER, IR_BRIGHT, IR_SPEED, IR_DENSE, IR_FAIL, 165}

NoSaved == <<>>

StandbyPcs == {"clr_cli", "clr", "clr_sei", "flag", "sb_sei", "sleep", "asleep",
               "sb_cli", "check"}

InStandby == mpc \in StandbyPcs

\* where the pixel loop of main starts each pass
PixelLoopPc(v) == IF v = "t10" THEN "cli" ELSE "hue"

\* mutant of cli: the instruction is missing
cli_Missing(i) == i

\* cli(): the I bit of SREG after the instruction, i being the bit before it
cli(i) == FALSE

\* mutant of sei: the instruction is missing
sei_Missing(i) == i

\* sei(): the I bit of SREG after the instruction, i being the bit before it
sei(i) == TRUE

\* standby is past the statement that clears the interrupt flag and has not
\* yet woken up from the sleep_mode() of this pass
AfterFlagClear == mpc \in {"sb_sei", "sleep", "asleep"}

\* the IR line changes its level: the pin-change interrupt flag is set
IR_Edge ==
  /\ mpc # "none" /\ ~pcif
  /\ pcif' = TRUE
  /\ sbEdge' = (sbEdge \/ AfterFlagClear)
  /\ UNCHANGED <<irVars, IR_flag, IR_dur, TCNT, timerOn, ocf, gie, addrVars, funVars, unread, mainVars>>

\* the pin-change interrupt is served.  gamma: EMPTY_INTERRUPT (PCINT0_vect);
\* t10: ISR (PCINT0_vect).  It ends the sleep of sleep_mode().
PCINT0_vect ==
  /\ mpc # "none" /\ gie /\ pcif
  /\ pcif' = FALSE
  /\ IF variant = "t10"
       THEN /\ IR_dur' = U8(TCNT)
            /\ TCNT' = 0
            /\ timerOn' = TRUE
            /\ IR_flag' = 0
       ELSE UNCHANGED <<IR_dur, TCNT, timerOn, IR_flag>>
  /\ mpc' = IF mpc = "asleep" THEN (IF variant = "gamma" THEN "sb_cli" ELSE "check")
            ELSE mpc
  /\ UNCHANGED <<irVars, ocf, gie, addrVars, funVars, edgeVars, animVars, current, pix, poll, command,
                 frame, hues, histVars>>

\* uint8_t current = start; start += speed; if (start >= 192) start -= 192;
\* and the pixel loop is entered: for (uint8_t i = NEO_PIXELS; i; i--)
Main_NewStart ==
  /\ mpc = "start"
  /\ current' = start
  /\ start' = Wrap192(start, speed)
  /\ pix' = NEO_PIXELS
  /\ IF LoopAgain(NEO_PIXELS)
       THEN mpc' = PixelLoopPc(variant) /\ poll' = poll
       ELSE mpc' = "poll" /\ poll' = PollSlices
  /\ frameStart' = start
  /\ UNCHANGED <<irVars, hwVars, addrVars, funVars, edgeVars, speed, dense, NEO_brightness, command,
                 frame, hues, off, saved, woke, sbLast>>

\* t10: cli();   (before NEO_writeHue in the pixel loop)
Main_Cli ==
  /\ mpc = "cli"
  /\ gie' = cli(gie)
  /\ mpc' = "hue"
  /\ UNCHANGED <<irVars, IR_flag, IR_dur, TCNT, timerOn, pcif, ocf, addrVars, funVars, edgeVars, animVars,
                 current, pix, poll, command, frame, hues, histVars>>

\* NEO_writeHue(current);
Main_WriteHue ==
  /\ mpc = "hue"
  /\ frame' = frame \o NEO_writeHue(variant, current, NEO_brightness)
  /\ hues' = Append(hues, current)
  /\ mpc' = IF variant = "t10" THEN "sei" ELSE "next"
  /\ UNCHANGED <<irVars, hwVars, addrVars, funVars, edgeVars, animVars, current, pix, poll, command,
                 histVars>>

\* t10: sei();   (after NEO_writeHue in the pixel loop)
Main_Sei ==
  /\ mpc = "sei"
  /\ gie' = sei(gie)
  /\ mpc' = "next"
  /\ UNCHANGED <<irVars, IR_flag, IR_dur, TCNT, timerOn, pcif, ocf, addrVars, funVars, edgeVars, animVars,
                 current, pix, poll, command, frame, hues, histVars>>

\* current += dense; if (current >= 192) current -= 192;  i--  and the loop
\* condition; after the last pixel the poll loop starts: for (uint8_t i=80; i; i--)
\* ('current' is not read again before it is assigned: it is kept as 0 then)
Main_NextPixel ==
  /\ mpc = "next"
  /\ pix' = pix - 1
  /\ IF LoopAgain(pix - 1)
       THEN /\ mpc' = PixelLoopPc(variant)
            /\ current' = Wrap192(current, dense)
            /\ poll' = poll
       ELSE /\ mpc' = "poll"
            /\ current' = 0
            /\ poll' = PollSlices
  /\ UNCHANGED <<irVars, hwVars, addrVars, funVars, edgeVars, animVars, command, frame, hues, histVars>>

\* if (IR_available()) { ... }: the level of the IR line decides
Main_Poll ==
  /\ mpc = "poll"
  /\ \E avail \in BOOLEAN : mpc' = IF avail THEN "read" ELSE "delay"
  /\ UNCHANGED <<irVars, hwVars, addrVars, funVars, edgeVars, animVars, current, pix, poll, command,
                 frame, hues, histVars>>

\* uint8_t command = IR_read(); switch (command) { ... }
\* case IR_POWER calls standby(), which calls NEO_clear().  A decoded command
\* took IR_read a whole NEC frame, so the pixels written before have latched.
Main_Command ==
  /\ mpc = "read"
  /\ \E c \in IRResults :
       /\ command' = c
       /\ IF DecodeLatches(c)
            THEN frame' = <<>> /\ hues' = <<>> /\ frameStart' = 0
            ELSE UNCHANGED <<frame, hues, frameStart>>
       /\ IF Case(c, IR_POWER)
            THEN /\ mpc' = IF variant = "t10" THEN "clr_cli" ELSE "clr"
                 /\ pix' = NEO_PIXELS
                 /\ off' = TRUE
                 /\ saved' = animVars
                 /\ UNCHANGED <<speed, dense, NEO_brightness>>
          ELSE IF Case(c, IR_SPEED)
            THEN /\ speed' = NextSpeed(speed)
                 /\ mpc' = "delay"
                 /\ UNCHANGED <<dense, NEO_brightness, pix, off, saved>>
          ELSE IF Case(c, IR_DENSE) /\ variant = "gamma"
            THEN /\ dense' = NextDense(dense)
                 /\ mpc' = "delay"
                 /\ UNCHANGED <<speed, NEO_brightness, pix, off, saved>>
          ELSE IF Case(c, IR_BRIGHT) /\ variant = "t10"
            THEN /\ NEO_brightness' = NextBrightness(NEO_brightness)
                 /\ mpc' = "delay"
                 /\ UNCHANGED <<speed, dense, pix, off, saved>>
          ELSE /\ mpc' = "delay"
               /\ UNCHANGED <<speed, dense, NEO_brightness, pix, off, saved>>
  /\ UNCHANGED <<irVars, hwVars, addrVars, funVars, edgeVars, start, current, poll, woke, sbLast>>

\* _delay_ms(1);  i--  and the loop condition of the poll loop.  The delay
\* latches the pixels written before; 'command' has gone out of scope.
Main_Delay ==
  /\ mpc = "delay"
  /\ poll' = poll - 1
  /\ mpc' = IF LoopAgain(poll - 1) THEN "poll" ELSE "start"
  /\ frame' = <<>>
  /\ hues' = <<>>
  /\ frameStart' = 0
  /\ woke' = FALSE
  /\ saved' = NoSaved
  /\ sbLast' = NoRet
  /\ command' = NoRet
  /\ UNCHANGED <<irVars, hwVars, addrVars, funVars, edgeVars, animVars, current, pix, off>>

\* t10: NEO_clear: cli();
Standby_ClearCli ==
  /\ mpc = "clr_cli"
  /\ gie' = cli(gie)
  /\ mpc' = IF LoopAgain(pix) THEN "clr" ELSE "clr_sei"
  /\ UNCHANGED <<irVars, IR_flag, IR_dur, TCNT, timerOn, pcif, ocf, addrVars, funVars, edgeVars, animVars,
                 current, pix, poll, command, frame, hues, histVars>>

\* NEO_clear: for (uint8_t i = NEO_PIXELS; i; i--) NEO_writeColor(0, 0, 0);
Standby_ClearPixel ==
  /\ mpc = "clr"
  /\ frame' = Append(frame, NEO_writeColor(0, 0, 0))
  /\ pix' = pix - 1
  /\ mpc' = IF LoopAgain(pix - 1) THEN "clr"
            ELSE IF variant = "t10" THEN "clr_sei" ELSE "flag"
  /\ UNCHANGED <<irVars, hwVars, addrVars, funVars, edgeVars, animVars, current, poll, command, hues,
                 histVars>>

\* t10: NEO_clear: sei();
Standby_ClearSei ==
  /\ mpc = "clr_sei"
  /\ gie' = sei(gie)
  /\ mpc' = "flag"
  /\ UNCHANGED <<irVars, IR_flag, IR_dur, TCNT, timerOn, pcif, ocf, addrVars, funVars, edgeVars, animVars,
                 current, pix, poll, command, frame, hues, histVars>>

\* gamma: GIFR |= (1<<PCIF);   clears the pin-change interrupt flag
\* t10:   PCICR |= (1<<PCIF0); writes the control register: bit 0 is PCIE0,
\*        already set by IR_init, and the flag stays as it is
Standby_ClearFlag ==
  /\ mpc = "flag"
  /\ pcif' = IF variant = "gamma" THEN FALSE ELSE pcif
  /\ mpc' = IF variant = "gamma" THEN "sb_sei" ELSE "sleep"
  /\ command' = NoRet
  /\ sbEdge' = FALSE
  /\ UNCHANGED <<irVars, IR_flag, IR_dur, TCNT, timerOn, ocf, gie, addrVars, funVars, unread, animVars,
                 current, pix, poll, frame, hues, histVars>>

\* gamma: sei();
Standby_Sei ==
  /\ mpc = "sb_sei"
  /\ gie' = sei(gie)
  /\ mpc' = "sleep"
  /\ UNCHANGED <<irVars, IR_flag, IR_dur, TCNT, timerOn, pcif, ocf, addrVars, funVars, edgeVars, animVars,
                 current, pix, poll, command, frame, hues, histVars>>

\* sleep_mode(): the CPU halts until an interrupt is served
Standby_Sleep ==
  /\ mpc = "sleep"
  /\ mpc' = "asleep"
  /\ UNCHANGED <<irVars, hwVars, addrVars, funVars, edgeVars, animVars, current, pix, poll, command,
                 frame, hues, histVars>>

\* gamma: cli();
Standby_Cli ==
  /\ mpc = "sb_cli"
  /\ gie' = cli(gie)
  /\ mpc' = "check"
  /\ UNCHANGED <<irVars, IR_flag, IR_dur, TCNT, timerOn, pcif, ocf, addrVars, funVars, edgeVars, animVars,
                 current, pix, poll, command, frame, hues, histVars>>

\* if ((IR_available()) && (IR_read() == IR_POWER)) break;
\* after the break standby returns into the switch of main, which goes on
\* with _delay_ms(1)
Standby_Check ==
  /\ mpc = "check"
  /\ \E avail \in BOOLEAN, c \in IRResults :
       /\ command' = IF avail THEN c ELSE command
       /\ sbLast' = IF avail /\ c # IR_POWER THEN c ELSE sbLast
       /\ off' = IF avail /\ c = IR_POWER THEN FALSE ELSE off
       /\ IF StandbyExit(avail, c)
            THEN mpc' = "delay" /\ woke' = TRUE
            ELSE mpc' = "flag" /\ woke' = woke
  /\ sbEdge' = FALSE
  /\ UNCHANGED <<irVars, hwVars, addrVars, funVars, unread, animVars, current, pix, poll, frame, hues,
                 saved, frameStart>>

\* the function variables while no function is applied on its own
FunOff == fin = <<>> /\ fout = <<>>

\* the main-loop variables while the program is not modelled as a whole
MainOff ==
  /\ mpc = "none"
  /\ start = 0 /\ speed = 0 /\ dense = 0 /\ NEO_brightness = 0
  /\ current = 0 /\ pix = 0 /\ poll = 0 /\ command = NoRet
  /\ frame = <<>> /\ hues = <<>>
  /\ off = FALSE /\ saved = NoSaved /\ woke = FALSE /\ sbLast = NoRet
  /\ frameStart = 0

\* the decoder variables while IR_read is a value drawn from IRResults
DecoderOff ==
  /\ scen = [a1 |-> 0, a2 |-> 0, c1 |-> 0, c2 |-> 0, pos |-> 0, kind |-> "none"]
  /\ lineSeg = 1 /\ lineOff = 0 /\ pc = <<"off", "">>
  /\ bitI = 0 /\ byteIx = 0 /\ result = 0 /\ rbytes = <<>> /\ data = NoData
  /\ ret = NoRet /\ waits = 0 /\ pinState = 0 /\ dur = 0 /\ wres = 0 /\ iters = 0
  /\ lastTimeout = 0
  /\ bad = FALSE /\ badWaits = 0 /\ entrySeg = 0
  /\ IR_flag = 0 /\ IR_dur = 0 /\ TCNT = 0 /\ timerOn = FALSE
  /\ pcif = FALSE /\ ocf = FALSE /\ unread = 0 /\ sbEdge = FALSE

\* main up to the loop: uint8_t start = 0; speed = 3; dense = 2;
\* NEO_brightness = 0; t10 ends its setup with sei()
InitMain ==
  /\ variant \in Variants
  /\ DecoderOff
  /\ gie = (variant = "t10")
  /\ vin = <<>> /\ vout = <<>>
  /\ FunOff
  /\ mpc = "start"
  /\ start = 0 /\ speed = 3 /\ dense = 2 /\ NEO_brightness = 0
  /\ current = 0 /\ pix = 0 /\ poll = 0 /\ command = NoRet
  /\ frame = <<>> /\ hues = <<>>
  /\ off = FALSE /\ saved = NoSaved /\ woke = FALSE /\ sbLast = NoRet
  /\ frameStart = 0

NextMain ==
  \/ IR_Edge \/ PCINT0_vect
  \/ Main_NewStart \/ Main_Cli \/ Main_WriteHue \/ Main_Sei \/ Main_NextPixel
  \/ Main_Poll \/ Main_Command \/ Main_Delay
  \/ Standby_ClearCli \/ Standby_ClearPixel \/ Standby_ClearSei
  \/ Standby_ClearFlag \/ Standby_Sei \/ Standby_Sleep \/ Standby_Cli
  \/ Standby_Check

SpecMain == InitMain /\ [][NextMain]_vars

-----------------------------------------------------------------------------
(* SpecHue: NEO_writeHue applied to one 8-bit hue at one brightness *)

Brightnesses == 0 .. 2

NoHueOut == [done |-> FALSE, colors |-> <<>>, next |-> <<>>, plus192 |-> <<>>]

\* NEO_writeHue(hue), and for comparison NEO_writeHue of the hue that follows
\* on the wheel and of hue + 192 where that is an 8-bit value
H_WriteHue ==
  /\ mpc = "hue_fn" /\ ~fout.done
  /\ fout' = [done    |-> TRUE,
              colors  |-> NEO_writeHue(variant, fin.hue, fin.brightness),
              next    |-> IF fin.hue < 192
                            THEN NEO_writeHue(variant, Wrap192(fin.hue, 1), fin.brightness)
                            ELSE <<>>,
              plus192 |-> IF fin.hue + 192 <= 255
                            THEN NEO_writeHue(variant, fin.hue + 192, fin.brightness)
                            ELSE <<>>]
  /\ UNCHANGED <<irVars, hwVars, addrVars, fin, edgeVars, mainVars>>

\* the program variables while a function is applied on its own
ProgramOff(tag) ==
  /\ DecoderOff
  /\ gie = FALSE
  /\ vin = <<>> /\ vout = <<>>
  /\ mpc = tag
  /\ start = 0 /\ speed = 0 /\ dense = 0 /\ NEO_brightness = 0
  /\ current = 0 /\ pix = 0 /\ poll = 0 /\ command = NoRet
  /\ frame = <<>> /\ hues = <<>>
  /\ off = FALSE /\ saved = NoSaved /\ woke = FALSE /\ sbLast = NoRet
  /\ frameStart = 0

InitHue ==
  /\ variant \in Variants
  /\ \E h \in 0 .. 255, b \in Brightnesses : fin = [hue |-> h, brightness |-> b]
  /\ fout = NoHueOut
  /\ ProgramOff("hue_fn")

NextHue == H_WriteHue

SpecHue == InitHue /\ [][NextHue]_vars

-----------------------------------------------------------------------------
(* SpecWire: NEO_writeColor applied to one color, for each pixel type *)

WireGreens == {0, 85, 255}
WireBlues  == {0, 170}

NoWireOut == [done |-> FALSE, bytes |-> <<>>, bits |-> <<>>]

\* NEO_writeColor(r, g, b): its calls of NEO_sendByte and the bits they send
W_WriteColor ==
  /\ mpc = "wire_fn" /\ ~fout.done
  /\ LET bytes == NEO_writeColorT(fin.type, fin.r, fin.g, fin.b) IN
     fout' = [done |-> TRUE, bytes |-> bytes, bits |-> SendBytes(variant, bytes)]
  /\ UNCHANGED <<irVars, hwVars, addrVars, fin, edgeVars, mainVars>>

InitWire ==
  /\ variant \in Variants
  /\ \E t \in PixelTypes, r \in 0 .. 255, g \in WireGreens, b \in WireBlues :
       fin = [type |-> t, r |-> r, g |-> g, b |-> b]
  /\ fout = NoWireOut
  /\ ProgramOff("wire_fn")

NextWire == W_WriteColor

SpecWire == InitWire /\ [][NextWire]_vars

-----------------------------------------------------------------------------
(* SpecTol: one burst or pause of a data bit, its length anywhere within the *)
(* receiver's skew, measured in ticks and tested as IR_readByte (gamma) and  *)
(* the bit loop of IR_read (t10) test it                                     *)

\* skew of the receiver output in half microseconds (README: up to 158 us)
NEC_SKEW == 316

\* the count of a segment may be off by one tick either way: the first and
\* the last tick of a segment are cut by the edges
TickErrors == (0 - 1) .. 1

SegKinds == {"mark", "space0", "space1"}

NominalOf(kind) == IF kind = "space1" THEN NEC_ONE_SPACE ELSE NEC_BIT_MARK

\* gamma: the value IR_waitChange(timeout) returns for a segment that lasts q
\* polls: 0 if the test of the loop timed out before the change was seen
WaitResult(q, timeout) ==
  IF q > 0 /\ TimedOut(q - 1, timeout) THEN 0 ELSE U8(q)

\* t10: the value of IR_dur after IR_wait for a segment that lasts q counts:
\* TCNT0L saved by PCINT0_vect, or 0 set by TIM0_COMPA_vect on the timeout
TimerDur(q) == IF q > IR_TOP THEN 0 ELSE U8(q)

NoTolOut == [done |-> FALSE, ticks |-> 0, accepted |-> FALSE, bit |-> 0]

\* gamma: if (IR_waitChange(11) < 3) return IR_FAIL; dur = IR_waitChange(21);
\*        if (dur < 3) return IR_FAIL; if (dur > 11) result |= 0x80;
\* t10:   IR_wait(); if (!IR_dur) return IR_FAIL; IR_wait();
\*        if (!IR_dur) return IR_FAIL; if (IR_dur > IR_time(1124)) data |= 0x80000000;
Tol_Measure ==
  /\ mpc = "tol_fn" /\ ~fout.done
  /\ LET q == (fin.len \div TickHalfUs(variant)) + fin.err
         w == IF variant = "gamma"
                THEN WaitResult(q, TimeoutOf(IF fin.kind = "mark" THEN "mark" ELSE "space"))
                ELSE TimerDur(q)
     IN fout' = [done |-> TRUE,
                 ticks |-> q,
                 accepted |-> IF variant = "t10" THEN w # 0
                              ELSE IF fin.kind = "mark" THEN ~MarkTooShort(w)
                              ELSE ~(w < 3),
                 bit |-> IF fin.kind = "mark" THEN 0
                         ELSE IF variant = "gamma"
                           THEN (IF OneSpace(w) THEN 1 ELSE 0)
                           ELSE (IF OneSpaceT(w) THEN 1 ELSE 0)]
  /\ UNCHANGED <<irVars, hwVars, addrVars, fin, edgeVars, mainVars>>

InitTol ==
  /\ variant \in Variants
  /\ \E k \in SegKinds, e \in TickErrors :
       \E l \in (NominalOf(k) - NEC_SKEW) .. (NominalOf(k) + NEC_SKEW) :
         fin = [kind |-> k, len |-> l, err |-> e]
  /\ fout = NoTolOut
  /\ ProgramOff("tol_fn")

NextTol == Tol_Measure

SpecTol == InitTol /\ [][NextTol]_vars

-----------------------------------------------------------------------------
(* SpecIR: a scenario on the line and one decoder *)

InitIR ==
  /\ variant \in Variants
  /\ scen \in Scenarios
  /\ IF variant = "gamma"
       THEN /\ \E p \in {<<1, 0>>} \cup {<<2, o>> : o \in EntryOffsets} :
                 lineSeg = p[1] /\ lineOff = p[2]
            /\ lineSeg = 1 \/ lineSeg > NSeg(scen)
                 \/ lineOff < LineTicks("gamma", scen, lineSeg)
            /\ pc = <<"call", "">>
       ELSE /\ lineSeg = 1 /\ lineOff = 0
            /\ pc = <<"idle", "">>
  /\ bitI = 0 /\ byteIx = 0 /\ result = 0 /\ rbytes = <<>> /\ data = NoData
  /\ ret = NoRet /\ waits = 0 /\ pinState = 0 /\ dur = 0 /\ wres = 0 /\ iters = 0
  /\ lastTimeout = 0
  /\ bad = FALSE /\ badWaits = 0 /\ entrySeg = 0
  /\ IR_flag = 0 /\ IR_dur = 0 /\ TCNT = 0 /\ timerOn = FALSE
  /\ pcif = FALSE /\ ocf = FALSE /\ unread = 0 /\ sbEdge = FALSE
  /\ gie = (variant = "t10")
  /\ vin = <<>> /\ vout = <<>>
  /\ FunOff
  /\ MainOff

NextIR ==
  \/ G_Enter \/ G_Poll \/ G_Lead \/ G_LeadSpace \/ G_Mark \/ G_Space \/ G_Final
  \/ T_Tick \/ T_PCINT \/ T_TIM0 \/ T_Enter \/ T_WaitSet \/ T_WaitSpin
  \/ T_ChkLead \/ T_ChkLeadSpace \/ T_ChkMark \/ T_ChkSpace \/ T_Final \/ T_Return

SpecIR == InitIR /\ [][NextIR]_vars

-----------------------------------------------------------------------------
(* SpecEdges: the t10 decoder on a line whose edges may also fall between    *)
(* two waits of IR_read                                                      *)

EdgeCmds == {IR_POWER, IR_SPEED}

InitEdges ==
  /\ InitIR
  /\ variant = "t10"
  /\ Nominal(scen) /\ scen.a1 = 26 /\ scen.a2 = 229
  /\ scen.c1 \in EdgeCmds /\ scen.c2 = 255 - scen.c1

NextEdges ==
  \/ T_Tick \/ T_EarlyEdge \/ T_PCINT \/ T_TIM0 \/ T_Enter \/ T_WaitSet \/ T_WaitSpin
  \/ T_ChkLead \/ T_ChkLeadSpace \/ T_ChkMark \/ T_ChkSpace \/ T_Final \/ T_Return

SpecEdges == InitEdges /\ [][NextEdges]_vars

-----------------------------------------------------------------------------
(* SpecAddr: the end of IR_read applied to four received bytes *)

AddrCmds == {<<1, 254>>, <<1, 253>>, <<255, 0>>}

NoOut == [done |-> FALSE, addrG |-> 0, addrT |-> 0, retG |-> 0, retT |-> 0]

\* gamma lines 174-178 and t10 lines 182-190 on the same four bytes
A_Validate ==
  /\ ~vout.done
  /\ LET d == <<vin.a1, vin.a2, vin.c1, vin.c2>> IN
     vout' = [done  |-> TRUE,
              addrG |-> AddrG(vin.a1, vin.a2),
              addrT |-> AddrT(d),
              retG  |-> Validate(AddrG(vin.a1, vin.a2), vin.c1, vin.c2),
              retT  |-> Validate(AddrT(d), DataCmd1(d), DataCmd2(d))]
  /\ UNCHANGED <<irVars, hwVars, vin, funVars, edgeVars, mainVars>>

InitAddr ==
  /\ \E a1 \in 0 .. 255, a2 \in 0 .. 255, c \in AddrCmds :
       vin = [a1 |-> a1, a2 |-> a2, c1 |-> c[1], c2 |-> c[2]]
  /\ vout = NoOut
  /\ variant = "gamma"
  /\ DecoderOff
  /\ gie = FALSE
  /\ FunOff
  /\ MainOff

NextAddr == A_Validate

SpecAddr == InitAddr /\ [][NextAddr]_vars

-----------------------------------------------------------------------------
(* Claims about the decoder *)

Done == pc = <<"done", "">>

\* IR_read was entered while the lead mark of the frame was on the line
EnteredInLead == entrySeg = 2

\* C1: whenever the two received command bytes do not sum to 255, IR_read
\* returns IR_FAIL (also when the address matches and all timings are valid).
C1_NonComplementRejected ==
  (Done /\ EnteredInLead /\ scen.c1 + scen.c2 # 255) => ret = IR_FAIL

\* C2: once a measured duration is outside its window, IR_read has returned
\* IR_FAIL and has measured no further mark or space.
C2_AbortsOnBadDuration ==
  bad => (Done /\ ret = IR_FAIL /\ waits = badWaits)

\* C3: a nominal frame for address 0x1A / 0xE5 with cmd2 = ~cmd1, decoded from
\* its lead mark on, makes IR_read return exactly cmd1.
C3_NominalFrameReturnsCmd ==
  (Done /\ EnteredInLead /\ Nominal(scen) /\ scen.a1 = 26 /\ scen.a2 = 229
     /\ scen.c2 = 255 - scen.c1)
  => ret = scen.c1

C3_Witness ==
  /\ Done /\ EnteredInLead /\ Nominal(scen) /\ variant = "t10"
  /\ scen.a1 = 26 /\ scen.a2 = 229 /\ scen.c1 = 1 /\ scen.c2 = 254
  /\ ret = IR_POWER

\* the decoded address as section 4.3 of the specification defines it
SpecAddress(a1, a2) == IF a1 + a2 = 255 THEN a1 ELSE a2 * 256 + a1

\* C4: a frame whose decoded address differs from IR_ADDR is answered with
\* IR_FAIL; only the address bytes (0x1A, 0xE5) and (0x1A, 0x00) are accepted.
C4_OnlyConfiguredAddress ==
  vout.done =>
    /\ SpecAddress(vin.a1, vin.a2) # IR_ADDR
         => (vout.retG = IR_FAIL /\ vout.retT = IR_FAIL)
    /\ (vout.retG # IR_FAIL \/ vout.retT # IR_FAIL)
         => <<vin.a1, vin.a2>> \in {<<26, 229>>, <<26, 0>>}

C4_Witness ==
  /\ vout.done /\ vin = [a1 |-> 52, a2 |-> 18, c1 |-> 1, c2 |-> 254]
  /\ vout.retG = IR_FAIL /\ vout.retT = IR_FAIL

\* C5: both variants compute addr1 for a complementary address pair and
\* (addr2 << 8) | addr1 otherwise.
C5_DecodedAddress ==
  vout.done =>
    /\ vout.addrG = SpecAddress(vin.a1, vin.a2)
    /\ vout.addrT = SpecAddress(vin.a1, vin.a2)

C5_Witness ==
  /\ vout.done /\ vin.a1 = 52 /\ vin.a2 = 18 /\ vin.c1 = 1
  /\ vout.addrG = 4660 /\ vout.addrT = 4660

\* the line never changes again
LineFrozen == lineSeg > NSeg(scen)

\* C6: whenever IR_wait spins on IR_flag, something that does not depend on
\* the line will clear the flag: the timer runs towards its compare match, or
\* an interrupt is pending.  (A wait on a frozen line returns.)
C6_WaitReturnsOnFrozenLine ==
  (variant = "t10" /\ pc[2] = "spin" /\ IR_flag = 1 /\ LineFrozen)
  => (timerOn \/ pcif \/ ocf)

\* C7: a call of IR_waitChange(timeout) executes its loop body at most
\* timeout + 2 times, and one IR_read calls it at most 67 times.
C7_BoundedPolling ==
  variant = "gamma" => (iters <= lastTimeout + 2 /\ waits <= 67)

C7_Witness ==
  /\ variant = "gamma" /\ Done /\ waits = 67 /\ iters = lastTimeout + 2
  /\ ret = IR_FAIL

\* the mainline of the t10 variant is about to write IR_flag (IR_wait:
\* IR_flag = 1) or to read IR_dur (the tests of IR_read)
MainlineTouchesShared == variant = "t10" /\ pc[2] \in {"set", "chk"}

\* C11: every mainline access to the pair (IR_dur, IR_flag) is made with global
\* interrupts disabled, so that no interrupt routine runs between the read of
\* the duration and the reset of the flag.
C11_SharedPairInCriticalSection ==
  MainlineTouchesShared => ~gie

-----------------------------------------------------------------------------
(* Claims about the main loop and standby *)

ClearFrame == [k \in 1 .. NEO_PIXELS |-> <<0, 0, 0>>]

\* C8: after power was received in ACTIVE the controller is in standby, the
\* only pixels written are zero colors, exactly NEO_PIXELS of them before the
\* first sleep, and no NEO_writeHue is called until IR_read returns power again.
C8_PowerClearsAndStops ==
  off =>
    /\ InStandby
    /\ hues = <<>>
    /\ \A k \in 1 .. Len(frame) : frame[k] = <<0, 0, 0>>
    /\ mpc \in {"flag", "sb_sei", "sleep", "asleep", "sb_cli", "check"}
         => frame = ClearFrame

C8_Witness ==
  /\ off /\ mpc = "asleep" /\ frame = ClearFrame /\ hues = <<>>
  /\ sbLast = IR_SPEED

\* C9: in standby, and when standby has returned, start, speed, dense and
\* NEO_brightness have the values they had when standby was entered, whatever
\* standby received; and standby returns only when IR_read returned power.
C9_StandbyKeepsAnimationState ==
  /\ (InStandby \/ woke) => animVars = saved
  /\ woke => command = IR_POWER

C9_Witness ==
  /\ woke /\ sbLast = IR_SPEED /\ command = IR_POWER /\ variant = "t10"
  /\ animVars = saved /\ speed = 7 /\ NEO_brightness = 1

\* a frame has begun and its last pixel is not yet written
FrameInProgress == Len(frame) \in 1 .. (NEO_PIXELS - 1)

\* C10: between the first and the last pixel of a frame, animation frame or
\* clear frame, global interrupts are disabled in both variants.
C10_FrameWithInterruptsOff ==
  FrameInProgress => ~gie

\* the pixel loop has written all pixels of the animation frame logged in hues
FrameRendered == Len(hues) = NEO_PIXELS

\* C12: pixel i (0 .. NEO_PIXELS-1, in ascending order) of a frame is rendered
\* with hue (s + i * dense) mod 192, s being the value of start before the
\* pass, and the pass leaves start = (s + speed) mod 192, advanced once.
C12_FrameEvolution ==
  hues # <<>> =>
    /\ Len(hues) <= NEO_PIXELS
    /\ \A k \in 1 .. Len(hues) : hues[k] = (frameStart + (k - 1) * dense) % 192
    /\ start = (frameStart + speed) % 192
    /\ mpc \in {"poll", "read", "delay"} => FrameRendered

C12_Witness ==
  /\ FrameRendered /\ mpc = "poll" /\ speed = 3 /\ dense = 2
  /\ frameStart = 190 /\ start = 1 /\ hues[1] = 190 /\ hues[2] = 0

\* C13: start and every hue passed to NEO_writeHue are in [0, 192), whatever
\* speed, density and brightness commands were received.
C13_HueRange ==
  /\ start \in 0 .. 191
  /\ current \in 0 .. 191
  /\ \A k \in 1 .. Len(hues) : hues[k] \in 0 .. 191

C13_Witness ==
  /\ FrameRendered /\ speed = 7 /\ dense = 6 /\ hues[1] = 191 /\ hues[2] = 5
  /\ start = 6

-----------------------------------------------------------------------------
(* Claims about the hue-to-color function *)

\* C14: for every hue h in 0 .. 63, NEO_writeHue(h + 192) emits the same color
\* as NEO_writeHue(h).
C14_HuePeriodicity ==
  (fout.done /\ mpc = "hue_fn" /\ fin.hue \in 0 .. 63) => fout.plus192 = fout.colors

\* entry i of the table a channel value is taken from: the gamma table, or the
\* linear value i << brightness
StepValue(v, i, brightness) ==
  IF v = "gamma" THEN gamma[i + 1] ELSE U8(i * Pow2(brightness))

\* two channel values that are the same or neighbouring entries of the table
OneStepApart(v, brightness, c1, c2) ==
  \E i \in 0 .. 63, j \in 0 .. 63 :
    /\ i - j \in {0 - 1, 0, 1}
    /\ c1 = StepValue(v, i, brightness)
    /\ c2 = StepValue(v, j, brightness)

\* C20: at the phase transitions 63 -> 64, 127 -> 128 and 191 -> 0 the colors
\* of the two adjacent hues differ by at most one table step in every channel,
\* in the gamma variant and in the t10 variant at every brightness.
C20_PhaseBoundaryContinuity ==
  (fout.done /\ mpc = "hue_fn" /\ fin.hue \in {63, 127, 191}) =>
    /\ Len(fout.colors) = 1 /\ Len(fout.next) = 1
    /\ \A ch \in 1 .. 3 :
         OneStepApart(variant, fin.brightness, fout.colors[1][ch], fout.next[1][ch])

C20_Witness ==
  /\ fout.done /\ mpc = "hue_fn" /\ variant = "t10"
  /\ fin = [hue |-> 191, brightness |-> 2]
  /\ fout.colors = <<NEO_writeColor(252, 0, 0)>>
  /\ fout.next = <<NEO_writeColor(252, 0, 0)>>

-----------------------------------------------------------------------------
(* Claims about the pixel wire format *)

WireDone == mpc = "wire_fn" /\ fout.done

\* C15: NEO_writeColor(r, g, b) sends exactly the bytes g, r, b (NEO_GRB),
\* r, g, b (NEO_RGB) or r, g, b, 0 (NEO_RGBW), and NEO_sendByte sends exactly
\* 8 bits per byte, bits 7 down to 0 of the byte, most significant first.
C15_WireFormat ==
  WireDone =>
    /\ fin.type = "NEO_GRB" => fout.bytes = <<fin.g, fin.r, fin.b>>
    /\ fin.type = "NEO_RGB" => fout.bytes = <<fin.r, fin.g, fin.b>>
    /\ fin.type = "NEO_RGBW" => fout.bytes = <<fin.r, fin.g, fin.b, 0>>
    /\ Len(fout.bits) = 8 * Len(fout.bytes)
    /\ \A k \in 1 .. Len(fout.bytes), j \in 0 .. 7 :
         fout.bits[8 * (k - 1) + j + 1].bit = Bit(fout.bytes[k], 7 - j)

C15_Witness ==
  /\ WireDone /\ fin = [type |-> "NEO_GRB", r |-> 165, g |-> 85, b |-> 170]
  /\ fout.bytes = <<85, 165, 170>>
  /\ [k \in 1 .. 8 |-> fout.bits[8 + k].bit] = <<1, 0, 1, 0, 0, 1, 0, 1>>

\* limits of the pulse widths in ns (README, table of timing rules)
T0H_MIN == 65
T0H_MAX == 500
T1H_MIN == 625
TCT_MIN == 1150
TCT_MAX == 9000

\* cyc clock cycles last at least / at most ns nanoseconds at the clock of v
AtLeastNs(v, cyc, ns) == cyc * 1000000 >= ns * ClockKHz(v)
AtMostNs(v, cyc, ns)  == cyc * 1000000 <= ns * ClockKHz(v)

-----------------------------------------------------------------------------
(* Claims about polls without a command, and about the latch *)

\* the commands the switch of main knows in each variant
Configured(v) ==
  IF v = "gamma" THEN {IR_POWER, IR_SPEED, IR_DENSE} ELSE {IR_POWER, IR_BRIGHT, IR_SPEED}

\* IR_read returns, in this step, IR_FAIL or a code that is no command
DiscardedResult ==
  /\ mpc \in {"read", "check"}
  /\ command' # command
  /\ command' \notin Configured(variant)

\* C16: a poll in which IR_read returns IR_FAIL, or a code that is not a
\* configured command, changes none of start, speed, dense, NEO_brightness
\* nor the ACTIVE / STANDBY state, and the loop goes on: main with its delay,
\* standby with its next sleep.
C16_FailDiscarded ==
  [][DiscardedResult =>
       /\ UNCHANGED animVars
       /\ off' = off
       /\ mpc' = IF mpc = "read" THEN "delay" ELSE "flag"]_vars

C16_Witness ==
  /\ mpc = "delay" /\ command = IR_FAIL /\ ~off
  /\ speed = 7 /\ NEO_brightness = 2 /\ FrameRendered

\* the line has been LOW for the latch time since the last pixel was written
Latched == frame = <<>>

\* the first pixel of a frame (animation or clear) is about to be written
FrameBegins == mpc \in {"hue", "clr"} /\ pix = NEO_PIXELS

-----------------------------------------------------------------------------
(* Claims about the decoder's tolerance windows *)

\* C19: every burst of 562.5 us +/- 158 us is accepted, every pause of
\* 562.5 us +/- 158 us is accepted and decoded as 0, every pause of
\* 1687.5 us +/- 158 us is accepted and decoded as 1, with the duration
\* counted in ticks and off by at most one tick.
C19_SkewAbsorbed ==
  (mpc = "tol_fn" /\ fout.done) =>
    /\ fout.accepted
    /\ fin.kind = "space0" => fout.bit = 0
    /\ fin.kind = "space1" => fout.bit = 1

C19_Witness ==
  /\ mpc = "tol_fn" /\ fout.done /\ variant = "gamma"
  /\ fin = [kind |-> "mark", len |-> 809, err |-> 0 - 1]
  /\ fout.ticks = 3 /\ fout.accepted

-----------------------------------------------------------------------------
(* Claims about the parameter commands *)

\* the successor of x on a cycle given as the sequence of its values
CycleNext(cyc, x) ==
  LET k == CHOOSE j \in 1 .. Len(cyc) : cyc[j] = x IN cyc[(k % Len(cyc)) + 1]

OnCycle(cyc, x) == \E j \in 1 .. Len(cyc) : cyc[j] = x

SpeedCycle  == <<3, 7, 0, 1>>
DenseCycle  == <<2, 4, 6, 0>>
BrightCycle == <<0, 1, 2>>

\* the switch of main runs in this step and takes the case of code c
CommandTaken(c) == mpc = "read" /\ mpc' # "read" /\ command' = c

\* C21: the speed command steps speed along 3 -> 7 -> 0 -> 1 -> 3, the density
\* command steps dense along 2 -> 4 -> 6 -> 0 -> 2, the brightness command
\* steps NEO_brightness along 0 -> 1 -> 2 -> 0 (four, four and three presses
\* restore the value), and a command leaves start and the other fields as
\* they are.
C21_CommandCycles ==
  /\ [](/\ OnCycle(SpeedCycle, speed)
        /\ OnCycle(DenseCycle, dense)
        /\ OnCycle(BrightCycle, NEO_brightness)
        /\ NextSpeed(NextSpeed(NextSpeed(NextSpeed(speed)))) = speed
        /\ NextDense(NextDense(NextDense(NextDense(dense)))) = dense
        /\ NextBrightness(NextBrightness(NextBrightness(NEO_brightness)))
             = NEO_brightness)
  /\ [][/\ CommandTaken(IR_SPEED)
          => /\ speed' = CycleNext(SpeedCycle, speed)
             /\ UNCHANGED <<start, dense, NEO_brightness>>
        /\ (CommandTaken(IR_DENSE) /\ variant = "gamma")
          => /\ dense' = CycleNext(DenseCycle, dense)
             /\ UNCHANGED <<start, speed, NEO_brightness>>
        /\ (CommandTaken(IR_BRIGHT) /\ variant = "t10")
          => /\ NEO_brightness' = CycleNext(BrightCycle, NEO_brightness)
             /\ UNCHANGED <<start, speed, dense>>]_vars

C21_Witness ==
  /\ mpc = "delay" /\ command = IR_DENSE /\ variant = "gamma"
  /\ dense = 0 /\ speed = 1 /\ ~off

-----------------------------------------------------------------------------
(* Claims about the interrupt-driven decoder and its edges *)

\* C22: during one IR_read every pin-change edge is consumed by exactly one
\* IR_wait: whenever the mainline is about to reset IR_flag for the next wait,
\* every duration PCINT0_vect has stored in this IR_read has been returned by
\* an IR_wait, also when the interrupt ran after the last IR_wait returned.
C22_EveryEdgeTakenOnce ==
  (variant = "t10" /\ InRead /\ pc[2] = "set") => unread = 0

-----------------------------------------------------------------------------
(* Claims about the pixels of an animation frame *)

\* the phase NEO_writeHue selects its case by: uint8_t phase = hue >> 6
PhaseOf(hue) == hue \div 64

\* the pixel loop of main is running or has ended and the poll loop not yet
\* latched its pixels
InAnimationFrame == hues # <<>>

\* C23: every animation frame emits exactly NEO_PIXELS colors of 3 bytes, one
\* per pixel and in the order of the pixels; NEO_writeHue is never called with
\* a hue of phase 3, whose default branch writes no color.
C23_OneColorPerPixel ==
  /\ mpc = "hue" => PhaseOf(current) \in 0 .. 2
  /\ \A k \in 1 .. Len(hues) : PhaseOf(hues[k]) \in 0 .. 2
  /\ InAnimationFrame =>
       /\ Len(frame) = Len(hues)
       /\ \A k \in 1 .. Len(frame) :
            /\ Len(frame[k]) = 3
            /\ <<frame[k]>> = NEO_writeHue(variant, hues[k], NEO_brightness)
       /\ mpc \in {"poll", "read", "delay"} => Len(frame) = NEO_PIXELS

C23_Witness ==
  /\ mpc = "poll" /\ Len(frame) = NEO_PIXELS /\ FrameRendered
  /\ variant = "gamma" /\ dense = 6 /\ hues[1] = 186 /\ hues[2] = 0
  /\ frame[1] = NEO_writeColor(203, 0, 0) /\ frame[2] = NEO_writeColor(255, 0, 0)

-----------------------------------------------------------------------------
(* Claims about the 8-bit arithmetic of the animation *)

\* t10 NEO_writeHue: (hue & 63) << NEO_brightness and 63 << NEO_brightness as
\* the integers they are before they are stored in a uint8_t
StepWide(hue, brightness) == (hue % 64) * Pow2(brightness)
FullWide(brightness) == 63 * Pow2(brightness)

\* uint8_t step = (hue & 63) << NEO_brightness;
\* uint8_t nstep = (63 << NEO_brightness) - step;
Step8(hue, brightness) == U8(StepWide(hue, brightness))
NStep8(hue, brightness) == U8(FullWide(brightness) - Step8(hue, brightness))

\* the hues NEO_writeHue was or is about to be called with
HuesInUse == {hues[k] : k \in 1 .. Len(hues)} \cup (IF mpc = "hue" THEN {current} ELSE {})

\* C24: speed is in {0,1,3,7}, dense in {0,2,4,6}, NEO_brightness in {0,1,2};
\* start + speed and current + dense are at most 255 before they are reduced
\* by 192; in the t10 variant step and nstep are stored without loss, lie in
\* 0 .. 252 and sum up to 63 << NEO_brightness.
C24_NoWrapAround ==
  /\ speed \in {0, 1, 3, 7}
  /\ dense \in {0, 2, 4, 6}
  /\ NEO_brightness \in {0, 1, 2}
  /\ start + speed <= 255 /\ U8(start + speed) = start + speed
  /\ current + dense <= 255 /\ U8(current + dense) = current + dense
  /\ variant = "t10" =>
       \A h \in HuesInUse :
         /\ Step8(h, NEO_brightness) = StepWide(h, NEO_brightness)
         /\ NStep8(h, NEO_brightness)
              = FullWide(NEO_brightness) - StepWide(h, NEO_brightness)
         /\ Step8(h, NEO_brightness) \in 0 .. 252
         /\ NStep8(h, NEO_brightness) \in 0 .. 252
         /\ Step8(h, NEO_brightness) + NStep8(h, NEO_brightness)
              = FullWide(NEO_brightness)

C24_Witness ==
  /\ variant = "t10" /\ mpc = "hue" /\ current = 191 /\ NEO_brightness = 2
  /\ speed = 7 /\ Step8(current, NEO_brightness) = 252
  /\ NStep8(current, NEO_brightness) = 0

-----------------------------------------------------------------------------
(* Claims about the global interrupt enable *)

\* main or standby is about to test IR_available() and to call IR_read
AtIRRead == mpc \in {"poll", "read", "check"}

\* C25: in the t10 variant IR_read, and with it the busy wait of IR_wait, is
\* entered with global interrupts enabled, from the poll loop of main and from
\* standby: never between a cli() and its sei().
C25_WaitWithInterruptsOn ==
  (variant = "t10" /\ AtIRRead) => gie

C25_Witness ==
  /\ variant = "t10" /\ mpc = "check" /\ gie /\ off /\ frame = ClearFrame
  /\ sbLast = IR_FAIL

\* where the gamma variant runs between the sei() and the cli() of standby
AroundSleep == mpc \in {"sleep", "asleep", "sb_cli"}

\* C26: in the gamma variant global interrupts are enabled only between the
\* sei() and the cli() around sleep_mode() in standby; they are disabled while
\* pixels are sent, while IR_read runs and in the loop of main, before the
\* first standby and after every return from standby.
C26_InterruptsOnlyAroundSleep ==
  (variant = "gamma" /\ gie) => AroundSleep

C26_Witness ==
  /\ variant = "gamma" /\ ~gie /\ woke /\ mpc = "delay" /\ ~off
  /\ command = IR_POWER

-----------------------------------------------------------------------------
(* Claims about the value IR_read returns *)

\* the frame on the line has nominal timing, the address of the device with
\* its complement, and a command byte with its complement
ValidFrame ==
  /\ Nominal(scen)
  /\ scen.a1 = IR_ADDR /\ scen.a2 = 255 - scen.a1
  /\ scen.c2 = 255 - scen.c1

\* C27: IR_read returns IR_FAIL only for frames it rejected: for no frame that
\* passes the timing, complement and address checks, whatever its command
\* byte cmd1 in 0 .. 255 (cmd2 = ~cmd1).
C27_FailOnlyWhenRejected ==
  (Done /\ EnteredInLead /\ ValidFrame) => ret # IR_FAIL

-----------------------------------------------------------------------------
(* Claims about the wake-up from standby *)

\* the CPU is halted in sleep_mode()
Halted == mpc = "asleep"

\* C28: an edge of the IR line that occurs after standby has cleared the
\* pending interrupt flag, also one between the enabling of interrupts and the
\* sleep instruction, ends the halt of that pass of the loop: the CPU is never
\* halted after such an edge unless its interrupt is still to be served.
C28_NoLostWakeup ==
  (Halted /\ sbEdge) => (pcif /\ gie)

=============================================================================
